---- MODULE Spec2Model ----
(***************************************************************************)
(* Model of lantern_pro.go: the Pro command dispatcher (ProRequest), its   *)
(* nine handlers, the direct RemoveDevice operation and the request        *)
(* context they build (newRequest).                                        *)
(*                                                                         *)
(* A goroutine calling ProRequest or RemoveDevice is a process p.  A call  *)
(* goes through three steps, cut where the Go code can be overtaken by     *)
(* another goroutine sharing the Session:                                  *)
(*   Enter     newRequest (the identity snapshot) up to the handler lookup *)
(*   Remote    the handler's reads of Session and its one remote call      *)
(*   Complete  the handler's writes to Session and the dispatcher's        *)
(*             reconciliation into a boolean and the error slot            *)
(* A Go pointer is a sequence: Nil is <<>>, Ptr(r) is <<r>>.               *)
(***************************************************************************)
EXTENDS Integers, Sequences, FiniteSets, TLC

\* ---------------------------------------------------------------- bounds
\* goroutines calling into the package concurrently
NumProcs == 2
\* calls (ProRequest or RemoveDevice) started in one behaviour
MaxDispatches == 2
\* plans in one response of the plans call
MaxPlans == 2
\* devices in one response of the user-data call
MaxDevices == 2

Procs == 1..NumProcs

\* ------------------------------------------------------------- pointers
Nil == <<>>
Ptr(r) == <<r>>
Deref(p) == p[1]

\* the nil error
NoErr == "nil"
\* messages of the errors the remote client returns
Errs == {"card_declined", "timeout"}

\* ------------------------------------------------- the command registry
\* the literal map of ProRequest: command name -> handler
commands ==
  [c \in {"newuser", "purchase", "plans", "signin", "redeemcode",
          "requestcode", "userdata", "referral", "cancel"} |-> c]

\* names a caller may pass to ProRequest
CommandNames == DOMAIN commands \cup {"bogus-command"}

\* the remote operation each handler calls on the client
RemoteOp(h) ==
  CASE h = "newuser"     -> "UserCreate"
    [] h = "purchase"    -> "Purchase"
    [] h = "plans"       -> "Plans"
    [] h = "signin"      -> "ApplyLinkCode"
    [] h = "redeemcode"  -> "RedeemLinkCode"
    [] h = "requestcode" -> "RequestLinkCode"
    [] h = "userdata"    -> "UserData"
    [] h = "referral"    -> "RedeemReferralCode"
    [] h = "cancel"      -> "CancelSubscription"

\* ------------------------------------------------------------ responses
\* client.Response as the handlers read it: Status, Error, the User payload
\* (Auth.ID, Auth.Token, Referral, Code, ExpireAt, Devices, UserStatus,
\* Expiration, Subscription, Email), PubKey and Plans.
ZeroUser ==
  [ID |-> 0, Token |-> "", Referral |-> "", Code |-> "", ExpireAt |-> 0,
   Devices |-> <<>>, UserStatus |-> "", Expiration |-> 0,
   Subscription |-> "", Email |-> ""]

ZeroResponse ==
  [Status |-> "", Error |-> "", User |-> ZeroUser, PubKey |-> "", Plans |-> <<>>]

\* (Status, Error) pairs a response carries
StatusErrors == {<<"ok", "">>, <<"failed", "card_declined">>}

\* identities the server hands out (create user, redeem link code)
Identities ==
  { [ID |-> 42, Token |-> "T", Referral |-> "R1"],
    [ID |-> 7,  Token |-> "U", Referral |-> "R2"] }

\* currency -> price mappings of a plan; the key "" is a legal map key
Prices ==
  { [c \in {} |-> 0],
    [c \in {"usd"} |-> 10],
    [c \in {"usd", "eur"} |-> IF c = "usd" THEN 10 ELSE 9],
    [c \in {""} |-> 5],
    [c \in {"", "usd"} |-> IF c = "usd" THEN 10 ELSE 5] }

PlanIds == <<"1y", "2y", "3y", "4y">>

\* the i-th plan of a response, with the price mapping pr
Plan(i, pr) ==
  [Id |-> PlanIds[i], Description |-> "plan", Price |-> pr,
   BestValue |-> (i = 1), Years |-> i]

\* plan lists of a response: up to MaxPlans plans, ids in order
PlanLists ==
  UNION { { [i \in 1..n |-> Plan(i, f[i])] : f \in [1..n -> Prices] } : n \in 0..MaxPlans }

Devices == { [Id |-> "d1", Name |-> "phone"], [Id |-> "d2", Name |-> "laptop"] }

\* device lists of a response: up to MaxDevices devices, repeats allowed
DeviceLists == UNION { [1..n -> Devices] : n \in 0..MaxDevices }

\* payloads the remote operation of handler h can answer with
Payloads(h) ==
  CASE h \in {"newuser", "redeemcode"} ->
         { [ZeroResponse EXCEPT !.User.ID = i.ID, !.User.Token = i.Token,
                                !.User.Referral = i.Referral] : i \in Identities }
    [] h = "requestcode" ->
         { [ZeroResponse EXCEPT !.User.Code = "LC1", !.User.ExpireAt = 100] }
    [] h = "plans" ->
         { [ZeroResponse EXCEPT !.PubKey = "pk_1", !.Plans = pl] : pl \in PlanLists }
    [] h = "userdata" ->
         { [ZeroResponse EXCEPT !.User.Devices = d, !.User.UserStatus = "active",
                                !.User.Expiration = 200, !.User.Subscription = "sub",
                                !.User.Email = "a@b.c"] : d \in DeviceLists }
    [] OTHER -> { ZeroResponse }

Responses(h) ==
  { [r EXCEPT !.Status = se[1], !.Error = se[2]] : r \in Payloads(h), se \in StatusErrors }

\* what a remote call returns: (res, err).  The client returns a response
\* whenever it returns no error; alongside an error it returns a response
\* or nil.
Outcomes(h) ==
  { [res |-> Ptr(r), err |-> NoErr] : r \in Responses(h) }
  \cup { [res |-> Nil, err |-> e] : e \in Errs }
  \cup { [res |-> Ptr(r), err |-> e] : r \in Responses(h), e \in Errs }

\* -------------------------------------------------------------- Session
\* an invocation of a Session mutator: its name and its arguments, the
\* strings, the integers and the booleans each in their order
Call(m, strs, ints, bools) == [m |-> m, str |-> strs, int |-> ints, bool |-> bools]

\* the mutators of the Session interface
Mutators ==
  {"SetToken", "SetUserId", "SetDeviceCode", "UserData", "SetCode", "SetError",
   "SetStripePubKey", "AddPlan", "AddDevice"}

\* the Session a caller passes in before any command has run
InitSession ==
  [userId |-> 0, token |-> "", code |-> "", deviceCode |-> "", deviceCodeExpiry |-> 0,
   error |-> Nil, stripePubKey |-> "",
   deviceId |-> "dev0", deviceName |-> "phone", locale |-> "en_US",
   verifyCode |-> "V1", referral |-> "REF", plan |-> "1y", stripeToken |-> "tok_1",
   stripeApiKey |-> "pk_0", email |-> "a@b.c", currency |-> "USD"]

\* the effect of one mutator invocation on what the accessors return
\* (last write wins); UserData, AddPlan and AddDevice have no accessor
Apply(s, c) ==
  CASE c.m = "SetUserId"       -> [s EXCEPT !.userId = c.int[1]]
    [] c.m = "SetToken"        -> [s EXCEPT !.token = c.str[1]]
    [] c.m = "SetCode"         -> [s EXCEPT !.code = c.str[1]]
    [] c.m = "SetDeviceCode"   -> [s EXCEPT !.deviceCode = c.str[1],
                                            !.deviceCodeExpiry = c.int[1]]
    [] c.m = "SetError"        -> [s EXCEPT !.error = Ptr(<<c.str[1], c.str[2]>>)]
    [] c.m = "SetStripePubKey" -> [s EXCEPT !.stripePubKey = c.str[1]]
    [] OTHER                   -> s

RECURSIVE ApplyAll(_, _)
ApplyAll(s, cs) ==
  IF cs = <<>> THEN s ELSE ApplyAll(Apply(s, Head(cs)), Tail(cs))

\* strings.ToLower on the currency codes a Session holds
ToLower(str) ==
  CASE str = "USD" -> "usd"
    [] str = "EUR" -> "eur"
    [] OTHER -> str

\* ------------------------------------------------------ request context
\* newRequest: nil and an error when the HTTP client cannot be built, else
\* a request holding the identity read from the Session now
\* mutant: the error of the client's construction is dropped
newRequest_IgnoresError(clientOk, s) ==
  [req |-> Ptr([user |-> [DeviceID |-> s.deviceId, ID |-> s.userId,
                          Token |-> s.token, Code |-> ""],
                session |-> FALSE]),
   err |-> NoErr]

newRequest(clientOk, s) ==
  IF ~clientOk
    THEN [req |-> Nil, err |-> "no_http_client"]
    ELSE [req |-> Ptr([user |-> [DeviceID |-> s.deviceId, ID |-> s.userId,
                                 Token |-> s.token, Code |-> ""],
                       session |-> FALSE]),
          err |-> NoErr]

\* ------------------------------------------------------------- handlers
\* mutant: the identity is read from the Session when the call is made
Request_RereadsSession(h, user, s) ==
  [op |-> RemoteOp(h),
   locale |-> s.locale,
   user |-> [DeviceID |-> s.deviceId, ID |-> s.userId, Token |-> s.token,
             Code |-> CASE h = "redeemcode" -> s.deviceCode
                        [] h = "signin"     -> s.verifyCode
                        [] OTHER            -> user.Code],
   args |-> CASE h = "purchase" ->
                   <<s.deviceName, s.stripeApiKey, s.stripeToken, s.email, s.plan,
                     ToLower(s.currency)>>
              [] h \in {"requestcode", "redeemcode"} -> <<s.deviceName>>
              [] h = "referral" -> <<s.referral>>
              [] OTHER -> <<>>]

\* What handler h sends: the remote operation, the request's user (its
\* Code set by redeemcode and signin) and the arguments read from Session.
Request(h, user, s) ==
  [op |-> RemoteOp(h),
   locale |-> s.locale,
   user |-> CASE h = "redeemcode" -> [user EXCEPT !.Code = s.deviceCode]
              [] h = "signin"     -> [user EXCEPT !.Code = s.verifyCode]
              [] OTHER            -> user,
   args |-> CASE h = "purchase" ->
                   <<s.deviceName, s.stripeApiKey, s.stripeToken, s.email, s.plan,
                     ToLower(s.currency)>>
              [] h \in {"requestcode", "redeemcode"} -> <<s.deviceName>>
              [] h = "referral" -> <<s.referral>>
              [] OTHER -> <<>>]

\* The Session mutators a handler invokes once its remote call has returned
\* (res, err), in order.
\* mutant: tests the response for nil instead of the error
newuser_TestsResponse(res, err) ==
  IF res = Nil
    THEN <<>>
    ELSE << Call("SetUserId", <<>>, <<Deref(res).User.ID>>, <<>>),
            Call("SetToken", <<Deref(res).User.Token>>, <<>>, <<>>),
            Call("SetCode", <<Deref(res).User.Referral>>, <<>>, <<>>) >>

\* mutant: the token and the referral code are stored in each other's place
newuser_SwapsTokenAndCode(res, err) ==
  IF err # NoErr
    THEN <<>>
    ELSE << Call("SetUserId", <<>>, <<Deref(res).User.ID>>, <<>>),
            Call("SetToken", <<Deref(res).User.Referral>>, <<>>, <<>>),
            Call("SetCode", <<Deref(res).User.Token>>, <<>>, <<>>) >>

newuser(res, err) ==
  IF err # NoErr
    THEN <<>>
    ELSE << Call("SetUserId", <<>>, <<Deref(res).User.ID>>, <<>>),
            Call("SetToken", <<Deref(res).User.Token>>, <<>>, <<>>),
            Call("SetCode", <<Deref(res).User.Referral>>, <<>>, <<>>) >>

purchase(res, err) == <<>>

requestcode(res, err) ==
  IF err # NoErr
    THEN <<>>
    ELSE << Call("SetDeviceCode", <<Deref(res).User.Code>>,
                 <<Deref(res).User.ExpireAt>>, <<>>) >>

\* mutant: writes as soon as there is no error, whatever the status
redeemcode_NoStatusCheck(res, err) ==
  IF err # NoErr
    THEN <<>>
    ELSE << Call("SetToken", <<Deref(res).User.Token>>, <<>>, <<>>),
            Call("SetUserId", <<>>, <<Deref(res).User.ID>>, <<>>) >>

redeemcode(res, err) ==
  IF err # NoErr \/ Deref(res).Status # "ok"
    THEN <<>>
    ELSE << Call("SetToken", <<Deref(res).User.Token>>, <<>>, <<>>),
            Call("SetUserId", <<>>, <<Deref(res).User.ID>>, <<>>) >>

\* mutant: a sign-in that succeeded stores the token of the response
signin_SetsToken(res, err) ==
  IF err = NoErr /\ Deref(res).Status = "ok"
    THEN << Call("SetToken", <<Deref(res).User.Token>>, <<>>, <<>>) >>
    ELSE <<>>

signin(res, err) == <<>>

referral(res, err) == <<>>

cancel(res, err) == <<>>

\* `for currency, price = range plan.Price { break }`: the zero values for
\* an empty map, else any one entry (Go's map order is unspecified)
RangeFirst(price) ==
  IF DOMAIN price = {}
    THEN { [currency |-> "", price |-> 0] }
    ELSE { [currency |-> k, price |-> price[k]] : k \in DOMAIN price }

\* the entry the range yields first, for each plan of the list
Picks(pl) ==
  { f \in [1..Len(pl) -> UNION { RangeFirst(pl[i].Price) : i \in 1..Len(pl) }] :
      \A i \in 1..Len(pl) : f[i] \in RangeFirst(pl[i].Price) }

\* the body of the loop over res.Plans, from plan i on
RECURSIVE AddPlans(_, _, _)
AddPlans(pl, pick, i) ==
  IF i > Len(pl)
    THEN <<>>
    ELSE (IF pick[i].currency # ""
            THEN << Call("AddPlan", <<pl[i].Id, pl[i].Description, pick[i].currency>>,
                         <<pl[i].Years, pick[i].price>>, <<pl[i].BestValue>>) >>
            ELSE <<>>)
         \o AddPlans(pl, pick, i + 1)

plans(res, err, pick) ==
  IF err # NoErr \/ Len(Deref(res).Plans) = 0
    THEN <<>>
    ELSE << Call("SetStripePubKey", <<Deref(res).PubKey>>, <<>>, <<>>) >>
         \o AddPlans(Deref(res).Plans, pick, 1)

RECURSIVE AddDevices(_, _)
AddDevices(ds, i) ==
  IF i > Len(ds)
    THEN <<>>
    ELSE << Call("AddDevice", <<ds[i].Id, ds[i].Name>>, <<>>, <<>>) >>
         \o AddDevices(ds, i + 1)

\* mutant: the bulk update comes before the devices
userdata_UserDataFirst(res, err) ==
  IF err # NoErr
    THEN <<>>
    ELSE << Call("UserData", <<Deref(res).User.UserStatus, Deref(res).User.Subscription,
                               Deref(res).User.Email>>,
                 <<Deref(res).User.Expiration>>, <<>>) >>
         \o AddDevices(Deref(res).User.Devices, 1)

userdata(res, err) ==
  IF err # NoErr
    THEN <<>>
    ELSE AddDevices(Deref(res).User.Devices, 1)
         \o << Call("UserData", <<Deref(res).User.UserStatus, Deref(res).User.Subscription,
                                  Deref(res).User.Email>>,
                    <<Deref(res).User.Expiration>>, <<>>) >>

\* commands[command](req), after the remote call
Handler(h, res, err, pick) ==
  CASE h = "newuser"     -> newuser(res, err)
    [] h = "purchase"    -> purchase(res, err)
    [] h = "plans"       -> plans(res, err, pick)
    [] h = "signin"      -> signin(res, err)
    [] h = "redeemcode"  -> redeemcode(res, err)
    [] h = "requestcode" -> requestcode(res, err)
    [] h = "userdata"    -> userdata(res, err)
    [] h = "referral"    -> referral(res, err)
    [] h = "cancel"      -> cancel(res, err)

\* the plans a handler ranges over: those of a plans response it got
\* without error, none otherwise
PlansOf(h, res, err) ==
  IF h = "plans" /\ err = NoErr THEN Deref(res).Plans ELSE <<>>

\* mutant: success is decided on the response's status alone
Reconcile_StatusOnly(command, res, err) ==
  IF res = Nil \/ Deref(res).Status # "ok"
    THEN [ret |-> FALSE,
          calls |-> IF res # Nil
                      THEN << Call("SetError", <<command, Deref(res).Error>>, <<>>, <<>>) >>
                      ELSE <<>>]
    ELSE [ret |-> TRUE, calls |-> <<>>]

\* mutant: the error slot is written only when the call returned an error
Reconcile_OnlyOnError(command, res, err) ==
  IF err # NoErr \/ Deref(res).Status # "ok"
    THEN [ret |-> FALSE,
          calls |-> IF res # Nil /\ err # NoErr
                      THEN << Call("SetError", <<command, Deref(res).Error>>, <<>>, <<>>) >>
                      ELSE <<>>]
    ELSE [ret |-> TRUE, calls |-> <<>>]

\* mutant: the error slot gets the error's message, not the response's
Reconcile_ErrMessage(command, res, err) ==
  IF err # NoErr \/ Deref(res).Status # "ok"
    THEN [ret |-> FALSE,
          calls |-> IF res # Nil
                      THEN << Call("SetError",
                                   <<command, IF err # NoErr THEN err ELSE Deref(res).Error>>,
                                   <<>>, <<>>) >>
                      ELSE <<>>]
    ELSE [ret |-> TRUE, calls |-> <<>>]

\* mutant: a success resets the error slot
Reconcile_ClearsOnSuccess(command, res, err) ==
  IF err # NoErr \/ Deref(res).Status # "ok"
    THEN [ret |-> FALSE,
          calls |-> IF res # Nil
                      THEN << Call("SetError", <<command, Deref(res).Error>>, <<>>, <<>>) >>
                      ELSE <<>>]
    ELSE [ret |-> TRUE, calls |-> << Call("SetError", <<"", "">>, <<>>, <<>>) >>]

\* ProRequest after the handler returned (res, err): the result and the
\* Session mutators it invokes
Reconcile(command, res, err) ==
  IF err # NoErr \/ Deref(res).Status # "ok"
    THEN [ret |-> FALSE,
          calls |-> IF res # Nil
                      THEN << Call("SetError", <<command, Deref(res).Error>>, <<>>, <<>>) >>
                      ELSE <<>>]
    ELSE [ret |-> TRUE, calls |-> <<>>]

\* ---------------------------------------------------------------- state
VARIABLES
  session,   \* the Session shared by every call
  proc,      \* per goroutine: the call it is in and how far it has got
  started    \* calls started so far

vars == <<session, proc, started>>

\* what the Session's accessors DeviceId, UserId and Token return
Auth(s) == [DeviceID |-> s.deviceId, ID |-> s.userId, Token |-> s.token]

\* a goroutine outside any call.  entered and atCall are history: what the
\* Session held when the call was entered and when its remote call was made
Idle ==
  [pc |-> "idle", entry |-> "", command |-> "", clientOk |-> TRUE, req |-> Nil,
   sent |-> <<>>,
   res |-> Nil, err |-> NoErr, ret |-> FALSE, calls |-> <<>>,
   entered |-> Nil, atCall |-> Nil]

Init ==
  /\ session = InitSession
  /\ proc = [p \in Procs |-> Idle]
  /\ started = 0

\* a nil dereference or a call of a nil function panics, and an unrecovered
\* panic ends the program
Running == \A q \in Procs : proc[q].pc # "fault"

\* ----------------------------------------------------------- ProRequest
\* lines 191-214: build the request context, keep the Session in it
ProRequestEnter(p) ==
  /\ Running
  /\ proc[p].pc = "idle"
  /\ started < MaxDispatches
  /\ \E command \in CommandNames, shouldProxy \in BOOLEAN, clientOk \in BOOLEAN :
       LET r == newRequest(clientOk, session) IN
         proc' = [proc EXCEPT ![p] =
           IF r.err # NoErr
             THEN [Idle EXCEPT !.pc = "done", !.entry = "ProRequest",
                               !.command = command, !.clientOk = clientOk, !.ret = FALSE,
                               !.entered = Ptr(Auth(session))]
             ELSE [Idle EXCEPT !.pc = "built", !.entry = "ProRequest",
                               !.command = command, !.clientOk = clientOk,
                               !.req = Ptr([Deref(r.req) EXCEPT !.session = TRUE]),
                               !.entered = Ptr(Auth(session))]]
  /\ started' = started + 1
  /\ UNCHANGED session

\* mutant: a remote call that returns an error is issued once more
ProRequestInvoke_Retries(p) ==
  /\ Running
  /\ proc[p].pc = "built"
  /\ proc[p].entry = "ProRequest"
  /\ IF proc[p].command \notin DOMAIN commands
       THEN proc' = [proc EXCEPT ![p].pc = "fault"]
       ELSE \E o \in Outcomes(commands[proc[p].command]) :
              LET rq == Request(commands[proc[p].command], Deref(proc[p].req).user, session)
              IN proc' = [proc EXCEPT
                   ![p].pc = "called",
                   ![p].sent = IF o.err # NoErr THEN Append(Append(@, rq), rq)
                                                ELSE Append(@, rq),
                   ![p].res = o.res,
                   ![p].err = o.err,
                   ![p].atCall = Ptr(Auth(session))]
  /\ UNCHANGED <<session, started>>

\* line 216, up to the return of the handler's remote call: the lookup in
\* commands yields nil for a name that is not a key, and calling nil panics
ProRequestInvoke(p) ==
  /\ Running
  /\ proc[p].pc = "built"
  /\ proc[p].entry = "ProRequest"
  /\ IF proc[p].command \notin DOMAIN commands
       THEN proc' = [proc EXCEPT ![p].pc = "fault"]
       ELSE \E o \in Outcomes(commands[proc[p].command]) :
              proc' = [proc EXCEPT
                ![p].pc = "called",
                ![p].sent = Append(@, Request(commands[proc[p].command],
                                              Deref(proc[p].req).user, session)),
                ![p].res = o.res,
                ![p].err = o.err,
                ![p].atCall = Ptr(Auth(session))]
  /\ UNCHANGED <<session, started>>

\* the rest of the handler and lines 217-225
ProRequestComplete(p) ==
  /\ Running
  /\ proc[p].pc = "called"
  /\ proc[p].entry = "ProRequest"
  /\ LET h == commands[proc[p].command]
         res == proc[p].res
         err == proc[p].err
     IN \E pick \in Picks(PlansOf(h, res, err)) :
          LET out == Reconcile(proc[p].command, res, err)
              cs == Handler(h, res, err, pick) \o out.calls
          IN /\ proc' = [proc EXCEPT ![p].pc = "done", ![p].ret = out.ret,
                                     ![p].calls = cs]
             /\ session' = ApplyAll(session, cs)
  /\ UNCHANGED started

\* --------------------------------------------------------- RemoveDevice
\* lines 175-181
RemoveDeviceEnter(p) ==
  /\ Running
  /\ proc[p].pc = "idle"
  /\ started < MaxDispatches
  /\ \E deviceId \in {"d1", "d2"}, shouldProxy \in BOOLEAN, clientOk \in BOOLEAN :
       LET r == newRequest(clientOk, session) IN
         proc' = [proc EXCEPT ![p] =
           IF r.err # NoErr
             THEN [Idle EXCEPT !.pc = "done", !.entry = "RemoveDevice",
                               !.command = deviceId, !.clientOk = clientOk, !.ret = FALSE,
                               !.entered = Ptr(Auth(session))]
             ELSE [Idle EXCEPT !.pc = "built", !.entry = "RemoveDevice",
                               !.command = deviceId, !.clientOk = clientOk,
                               !.req = r.req, !.entered = Ptr(Auth(session))]]
  /\ started' = started + 1
  /\ UNCHANGED session

\* line 182
RemoveDeviceCall(p) ==
  /\ Running
  /\ proc[p].pc = "built"
  /\ proc[p].entry = "RemoveDevice"
  /\ \E o \in Outcomes("removedevice") :
       proc' = [proc EXCEPT
         ![p].pc = "called",
         ![p].sent = Append(@, [op |-> "UserLinkRemove", locale |-> "",
                                user |-> Deref(proc[p].req).user,
                                args |-> <<proc[p].command>>]),
         ![p].res = o.res,
         ![p].err = o.err,
         ![p].atCall = Ptr(Auth(session))]
  /\ UNCHANGED <<session, started>>

\* mutant: the status of the response is not tested
RemoveDeviceComplete_IgnoresStatus(p) ==
  /\ Running
  /\ proc[p].pc = "called"
  /\ proc[p].entry = "RemoveDevice"
  /\ IF proc[p].err # NoErr
       THEN IF proc[p].res = Nil
              THEN proc' = [proc EXCEPT ![p].pc = "fault"]
              ELSE proc' = [proc EXCEPT ![p].pc = "done", ![p].ret = FALSE]
       ELSE proc' = [proc EXCEPT ![p].pc = "done", ![p].ret = TRUE]
  /\ UNCHANGED <<session, started>>

\* lines 183-188: the failure branch logs res.Status, which panics when res
\* is nil
RemoveDeviceComplete(p) ==
  /\ Running
  /\ proc[p].pc = "called"
  /\ proc[p].entry = "RemoveDevice"
  /\ LET res == proc[p].res
         err == proc[p].err
     IN IF err # NoErr \/ Deref(res).Status # "ok"
          THEN IF res = Nil
                 THEN proc' = [proc EXCEPT ![p].pc = "fault"]
                 ELSE proc' = [proc EXCEPT ![p].pc = "done", ![p].ret = FALSE]
          ELSE proc' = [proc EXCEPT ![p].pc = "done", ![p].ret = TRUE]
  /\ UNCHANGED <<session, started>>

\* the call has returned to its caller; the request context is discarded
Return(p) ==
  /\ Running
  /\ proc[p].pc = "done"
  /\ proc' = [proc EXCEPT ![p] = Idle]
  /\ UNCHANGED <<session, started>>

\* no call is in flight
Quiet == \A q \in Procs : proc[q].pc = "idle"

\* callers that serialize their access to the Session: a call starts only
\* when no other is in flight
Next ==
  \E p \in Procs :
    \/ Quiet /\ ProRequestEnter(p)
    \/ ProRequestInvoke(p)
    \/ ProRequestComplete(p)
    \/ Quiet /\ RemoveDeviceEnter(p)
    \/ RemoveDeviceCall(p)
    \/ RemoveDeviceComplete(p)
    \/ Return(p)

Spec == Init /\ [][Next]_vars

\* the commands that write the identity they send
IdentityCommands == {"newuser", "redeemcode"}

\* callers that do not: ProRequest calls of the identity commands overlap
\* freely on the one Session
ConcurrentNext ==
  \E p \in Procs :
    \/ ProRequestEnter(p) /\ proc'[p].command \in IdentityCommands
    \/ ProRequestInvoke(p)
    \/ ProRequestComplete(p)
    \/ Return(p)

SpecConcurrent == Init /\ [][ConcurrentNext]_vars

\* =============================================================== claims
\* p has returned from a ProRequest call
DonePro(p) == proc[p].pc = "done" /\ proc[p].entry = "ProRequest"

\* the step in which p's ProRequest call finishes: the handler's writes and
\* the dispatcher's reconciliation
Completes(p) ==
  /\ proc[p].entry = "ProRequest"
  /\ proc[p].pc = "called"
  /\ proc'[p].pc = "done"

\* the identity-affecting fields of a Session
Identity(s) == <<s.userId, s.token, s.code>>

\* the invocations of mutator m among cs, as positions
Where(cs, m) == { i \in 1..Len(cs) : cs[i].m = m }

\* C1: a ProRequest whose command is none of the nine registered names
\* never faults; it returns false having invoked no Session mutator and
\* made no remote call.
C1_UnknownCommandFails ==
  \A p \in Procs :
    (proc[p].entry = "ProRequest" /\ proc[p].command \notin DOMAIN commands
       /\ proc[p].clientOk)
      => /\ proc[p].pc # "fault"
         /\ proc[p].calls = <<>>
         /\ proc[p].sent = <<>>
         /\ proc[p].ret = FALSE

\* C2: a ProRequest that returns false leaves the Session's user id, token
\* and referral code as they were before it (so they change only in a
\* dispatch that got no error and status "ok").
C2_FailedDispatchKeepsIdentity ==
  [][ \A p \in Procs :
        (Completes(p) /\ ~proc'[p].ret) => Identity(session') = Identity(session) ]_vars

\* C3: when the handler's remote call returned an error, the dispatch
\* leaves user id, token and referral code unchanged, invokes no mutator
\* but SetError, and invokes SetError only if a response came with the
\* error.
C3_RemoteErrorFrame ==
  [][ \A p \in Procs :
        (Completes(p) /\ proc[p].err # NoErr)
          => /\ Identity(session') = Identity(session)
             /\ \A i \in 1..Len(proc'[p].calls) : proc'[p].calls[i].m = "SetError"
             /\ (proc[p].res = Nil => proc'[p].calls = <<>>) ]_vars

\* C3 witness: a create-user call that got an error together with a
\* response carrying a new identity has returned, SetError its only call.
C3_Witness ==
  \E p \in Procs :
    /\ DonePro(p)
    /\ proc[p].command = "newuser"
    /\ proc[p].err # NoErr
    /\ proc[p].res # Nil
    /\ Deref(proc[p].res).User.Token # session.token
    /\ Where(proc[p].calls, "SetError") = {1}

\* C4: redeemcode invokes SetToken and SetUserId only when the remote call
\* returned no error and status "ok"; with no error and another status it
\* writes neither and the dispatch returns false.
C4_RedeemOnlyOnOk ==
  \A p \in Procs :
    (DonePro(p) /\ proc[p].command = "redeemcode" /\ proc[p].clientOk)
      => LET cs == proc[p].calls
             ok == proc[p].err = NoErr /\ Deref(proc[p].res).Status = "ok"
         IN /\ (Where(cs, "SetToken") \cup Where(cs, "SetUserId") # {} => ok)
            /\ (proc[p].err = NoErr /\ ~ok
                  => /\ Where(cs, "SetToken") = {}
                     /\ Where(cs, "SetUserId") = {}
                     /\ proc[p].ret = FALSE)

\* C4 witness: a redeem-link-code call has returned after a response with
\* no error, status "failed" and a token the Session does not hold.
C4_Witness ==
  \E p \in Procs :
    /\ DonePro(p)
    /\ proc[p].command = "redeemcode"
    /\ proc[p].clientOk
    /\ proc[p].err = NoErr
    /\ Deref(proc[p].res).Status = "failed"
    /\ Deref(proc[p].res).User.Token = "T"
    /\ session.token # "T"
    /\ proc[p].ret = FALSE

\* C5: a ProRequest of a registered command whose handler ran returns true
\* exactly when the handler returned no error and a response of status "ok".
C5_TrueIffNoErrorAndOk ==
  \A p \in Procs :
    (DonePro(p) /\ proc[p].clientOk)
      => (proc[p].ret <=> (proc[p].err = NoErr /\ Deref(proc[p].res).Status = "ok"))

\* C5 witness: a call has returned false although the response that came
\* with the error has status "ok".
C5_Witness ==
  \E p \in Procs :
    /\ DonePro(p)
    /\ proc[p].clientOk
    /\ proc[p].err # NoErr
    /\ proc[p].res # Nil
    /\ Deref(proc[p].res).Status = "ok"
    /\ proc[p].ret = FALSE

\* C6: no ProRequest invokes SetError more than once; one that fails
\* invokes it exactly once, with the command name and the response's error
\* message, if the handler returned a response, and not at all if it
\* returned none.
C6_SetErrorOncePerResponse ==
  \A p \in Procs :
    (DonePro(p) /\ proc[p].clientOk)
      => LET cs == proc[p].calls
             se == Where(cs, "SetError")
         IN /\ Cardinality(se) <= 1
            /\ (~proc[p].ret /\ proc[p].res # Nil
                  => /\ Cardinality(se) = 1
                     /\ \A i \in se :
                          cs[i].str = <<proc[p].command, Deref(proc[p].res).Error>>)
            /\ (~proc[p].ret /\ proc[p].res = Nil => se = {})

\* C6 witness: a call failed on a status other than "ok" and SetError was
\* invoked with the response's message.
C6_Witness ==
  \E p \in Procs :
    /\ DonePro(p)
    /\ proc[p].clientOk
    /\ proc[p].err = NoErr
    /\ Deref(proc[p].res).Status = "failed"
    /\ Deref(proc[p].res).Error = "card_declined"
    /\ Cardinality(Where(proc[p].calls, "SetError")) = 1

\* C7, as claimed: a purchase whose remote call fails with the error
\* "card_declined" returns false and leaves the error slot equal to
\* ("purchase", "card_declined").
C7_PurchaseErrorRecorded ==
  \A p \in Procs :
    (DonePro(p) /\ proc[p].command = "purchase" /\ proc[p].err = "card_declined")
      => /\ proc[p].ret = FALSE
         /\ session.error = Ptr(<<"purchase", "card_declined">>)

\* C7, amended: a purchase whose remote call fails (an error, or a status
\* other than "ok") and returns a response whose error message is
\* "card_declined" returns false and leaves the error slot equal to
\* ("purchase", "card_declined").
C7_PurchaseResponseErrorRecorded ==
  \A p \in Procs :
    (/\ DonePro(p)
     /\ proc[p].command = "purchase"
     /\ proc[p].res # Nil
     /\ (proc[p].err # NoErr \/ Deref(proc[p].res).Status # "ok")
     /\ Deref(proc[p].res).Error = "card_declined")
      => /\ proc[p].ret = FALSE
         /\ session.error = Ptr(<<"purchase", "card_declined">>)

\* C7 witness: a purchase got the error "timeout" with a response whose
\* message is "card_declined", and the slot holds the response's message.
C7_Witness ==
  \E p \in Procs :
    /\ DonePro(p)
    /\ proc[p].command = "purchase"
    /\ proc[p].err = "timeout"
    /\ proc[p].res # Nil
    /\ Deref(proc[p].res).Error = "card_declined"
    /\ session.error = Ptr(<<"purchase", "card_declined">>)

\* C8: when the HTTP client cannot be built, ProRequest and RemoveDevice
\* return false at once: no remote call, no handler, no Session mutator.
C8_NoClientNoCall ==
  \A p \in Procs :
    (proc[p].pc # "idle" /\ ~proc[p].clientOk)
      => /\ proc[p].pc = "done"
         /\ proc[p].ret = FALSE
         /\ proc[p].req = Nil
         /\ proc[p].sent = <<>>
         /\ proc[p].calls = <<>>

\* C8 witness: a create-user call has returned without a client.
C8_Witness ==
  \E p \in Procs :
    /\ DonePro(p)
    /\ proc[p].command = "newuser"
    /\ ~proc[p].clientOk
    /\ proc[p].ret = FALSE

\* C9: userdata with no error and N devices invokes AddDevice N times, in
\* the response's order, and then UserData once; with an error it invokes
\* neither.
C9_DevicesThenUserData ==
  \A p \in Procs :
    (DonePro(p) /\ proc[p].command = "userdata" /\ proc[p].clientOk)
      => LET cs == proc[p].calls IN
         IF proc[p].err = NoErr
           THEN LET u == Deref(proc[p].res).User
                    n == Len(u.Devices)
                IN /\ Where(cs, "AddDevice") = 1..n
                   /\ \A i \in 1..n : cs[i].str = <<u.Devices[i].Id, u.Devices[i].Name>>
                   /\ Where(cs, "UserData") = {n + 1}
                   /\ cs[n + 1].str = <<u.UserStatus, u.Subscription, u.Email>>
                   /\ cs[n + 1].int = <<u.Expiration>>
           ELSE Where(cs, "AddDevice") = {} /\ Where(cs, "UserData") = {}

\* C9 witness: a fetch-user-data call has returned after a response with
\* two different devices.
C9_Witness ==
  \E p \in Procs :
    /\ DonePro(p)
    /\ proc[p].command = "userdata"
    /\ proc[p].clientOk
    /\ proc[p].err = NoErr
    /\ Len(Deref(proc[p].res).User.Devices) = 2
    /\ Deref(proc[p].res).User.Devices[1] # Deref(proc[p].res).User.Devices[2]
    /\ Len(proc[p].calls) >= 3

\* C10: for each plan of a plans response got without error, AddPlan is
\* not invoked if the plan's price mapping is empty, and is invoked exactly
\* once, with an entry of the mapping, if it has entries, whatever their
\* keys; the invocations follow the order of the plans.
C10_OnePlanPerNonEmptyMapping ==
  \A p \in Procs :
    (DonePro(p) /\ proc[p].command = "plans" /\ proc[p].clientOk /\ proc[p].err = NoErr)
      => LET cs == proc[p].calls
             pl == Deref(proc[p].res).Plans
             ap == Where(cs, "AddPlan")
         IN /\ \A i \in 1..Len(pl) :
                 LET mine == { j \in ap : cs[j].str[1] = pl[i].Id } IN
                   IF DOMAIN pl[i].Price = {}
                     THEN mine = {}
                     ELSE /\ Cardinality(mine) = 1
                          /\ \A j \in mine :
                               /\ cs[j].str[3] \in DOMAIN pl[i].Price
                               /\ cs[j].int[2] = pl[i].Price[cs[j].str[3]]
            /\ \A j, k \in ap : j < k => cs[j].int[1] < cs[k].int[1]

\* C11: RemoveDevice returns true only if the remote call returned no error
\* and status "ok", returns false on status "failed", and in no step
\* invokes a Session mutator or changes the Session.
C11_RemoveDeviceFrame ==
  [][ \A p \in Procs :
        (proc'[p].entry = "RemoveDevice" /\ proc'[p] # proc[p])
          => /\ session' = session
             /\ proc'[p].calls = <<>>
             /\ (proc'[p].pc = "done" /\ proc'[p].ret
                   => proc'[p].err = NoErr /\ Deref(proc'[p].res).Status = "ok")
             /\ (proc'[p].pc = "done" /\ proc'[p].res # Nil
                   /\ Deref(proc'[p].res).Status = "failed"
                   => ~proc'[p].ret) ]_vars

\* C11 witness: RemoveDevice has returned false on a response of status
\* "failed" that came without error.
C11_Witness ==
  \E p \in Procs :
    /\ proc[p].pc = "done"
    /\ proc[p].entry = "RemoveDevice"
    /\ proc[p].command = "d1"
    /\ proc[p].err = NoErr
    /\ proc[p].res # Nil
    /\ Deref(proc[p].res).Status = "failed"
    /\ proc[p].ret = FALSE

\* C12: the device id, user id and token a call sends are those the
\* Session held when the request context was built, also when another call
\* has changed the Session's identity between the construction and the
\* remote call; a call entered after the change sends the new values.
C12_SendsSnapshot ==
  \A p \in Procs :
    proc[p].sent # <<>>
      => \A i \in 1..Len(proc[p].sent) :
           LET u == proc[p].sent[i].user IN
             [DeviceID |-> u.DeviceID, ID |-> u.ID, Token |-> u.Token]
               = Deref(proc[p].entered)

\* C12 witness: a redeem-link-code call has made its remote call after
\* another call changed the Session's user id and token, and sent the ones
\* it was entered with.
C12_Witness ==
  \E p \in Procs :
    /\ proc[p].pc = "called"
    /\ proc[p].command = "redeemcode"
    /\ Deref(proc[p].atCall).Token # Deref(proc[p].entered).Token
    /\ Deref(proc[p].atCall).ID # Deref(proc[p].entered).ID
    /\ proc[p].sent[1].user.Token = Deref(proc[p].entered).Token

\* C13: a ProRequest of a registered command, and a RemoveDevice, whose
\* request context was built makes exactly one remote call, that of its
\* operation, whatever the call returns; none before the handler runs.
C13_OneRemoteCall ==
  \A p \in Procs :
    (/\ proc[p].pc # "idle"
     /\ proc[p].clientOk
     /\ (proc[p].entry = "ProRequest" => proc[p].command \in DOMAIN commands))
      => IF proc[p].pc = "built"
           THEN proc[p].sent = <<>>
           ELSE /\ Len(proc[p].sent) = 1
                /\ proc[p].sent[1].op =
                     IF proc[p].entry = "ProRequest"
                       THEN RemoteOp(commands[proc[p].command])
                       ELSE "UserLinkRemove"

\* C13 witness: a sign-in call has returned false after its one remote
\* call failed with an error and no response.
C13_Witness ==
  \E p \in Procs :
    /\ DonePro(p)
    /\ proc[p].command = "signin"
    /\ proc[p].err # NoErr
    /\ proc[p].res = Nil
    /\ proc[p].ret = FALSE
    /\ Len(proc[p].sent) = 1

\* C14: when a create-user call has returned true, the Session's user id,
\* token and referral code are the id, token and referral of the response.
C14_NewUserStored ==
  \A p \in Procs :
    (DonePro(p) /\ proc[p].command = "newuser" /\ proc[p].ret)
      => LET u == Deref(proc[p].res).User IN
           /\ session.userId = u.ID
           /\ session.token = u.Token
           /\ session.code = u.Referral

\* C14 witness: create-user has returned true on {ok, 42, "T", "R1"}.
C14_Witness ==
  \E p \in Procs :
    /\ DonePro(p)
    /\ proc[p].command = "newuser"
    /\ proc[p].ret
    /\ Deref(proc[p].res).User.ID = 42
    /\ session.userId = 42
    /\ session.token = "T"
    /\ session.code = "R1"

\* C15: when a list-plans call has returned true, it has invoked
\* SetStripePubKey with the response's public key, also when the response
\* holds no plan.
C15_PubKeyOnSuccess ==
  \A p \in Procs :
    (DonePro(p) /\ proc[p].command = "plans" /\ proc[p].ret)
      => \E i \in Where(proc[p].calls, "SetStripePubKey") :
           proc[p].calls[i].str = <<Deref(proc[p].res).PubKey>>

\* C16: a call that returns false has not invoked SetDeviceCode
\* (requestcode), SetStripePubKey or AddPlan (plans), AddDevice or UserData
\* (userdata), also when the response came without error and with a status
\* other than "ok".
C16_WritesOnlyOnSuccess ==
  \A p \in Procs :
    (DonePro(p) /\ proc[p].clientOk /\ ~proc[p].ret)
      => LET cs == proc[p].calls IN
           /\ proc[p].command = "requestcode" => Where(cs, "SetDeviceCode") = {}
           /\ proc[p].command = "plans"
                => Where(cs, "SetStripePubKey") \cup Where(cs, "AddPlan") = {}
           /\ proc[p].command = "userdata"
                => Where(cs, "AddDevice") \cup Where(cs, "UserData") = {}

\* the commands whose handlers only forward the result of the remote call
StatusOnlyCommands == {"purchase", "signin", "referral", "cancel"}

\* C17: a purchase, sign-in, referral or cancel call invokes no Session
\* mutator but SetError: when it returns true the Session is unchanged,
\* when it returns false at most the error slot has changed.
C17_StatusOnlyFrame ==
  [][ \A p \in Procs :
        (Completes(p) /\ proc[p].command \in StatusOnlyCommands)
          => /\ \A i \in 1..Len(proc'[p].calls) : proc'[p].calls[i].m = "SetError"
             /\ (proc'[p].ret => proc'[p].calls = <<>> /\ session' = session)
             /\ [session' EXCEPT !.error = session.error] = session ]_vars

\* C17 witness: a sign-in has returned true, and a Session that already
\* held an identity is as it was.
C17_Witness ==
  \E p \in Procs :
    /\ DonePro(p)
    /\ proc[p].command = "signin"
    /\ proc[p].ret
    /\ proc[p].calls = <<>>
    /\ session.token = "T"

\* C19: a ProRequest that returns true does not invoke SetError and leaves
\* the error slot holding what the latest failed call with a response put
\* there; no step empties a slot that has been written.
C19_SuccessKeepsErrorSlot ==
  [][ /\ \A p \in Procs :
           (Completes(p) /\ proc'[p].ret)
             => /\ Where(proc'[p].calls, "SetError") = {}
                /\ session'.error = session.error
      /\ (session.error # Nil => session'.error # Nil) ]_vars

\* C19 witness: a call has returned true while the error slot holds the
\* failure of an earlier call of another command.
C19_Witness ==
  \E p \in Procs :
    /\ DonePro(p)
    /\ proc[p].command = "cancel"
    /\ proc[p].ret
    /\ session.error = Ptr(<<"purchase", "card_declined">>)

\* C20: a RemoveDevice whose remote call returned an error and no response
\* returns false, without a fault.
C20_RemoveDeviceNilResponse ==
  \A p \in Procs :
    (/\ proc[p].entry = "RemoveDevice"
     /\ proc[p].pc \notin {"idle", "built"}
     /\ proc[p].err # NoErr
     /\ proc[p].res = Nil)
      => /\ proc[p].pc # "fault"
         /\ proc[p].ret = FALSE

====
